---- MODULE Spec2Model ----
(***************************************************************************)
(* Lumina browsing-surface manager (src-tauri/src/lib.rs): the tab         *)
(* commands create_tab, switch_tab and close_tab acting on the host's      *)
(* label -> webview map and on UiState.current_tab.                        *)
(*                                                                         *)
(* Host layer (Tauri), as the source uses and documents it:                *)
(*  - app.get_webview(label) / app.webviews() see only webviews the host   *)
(*    has registered; "add_child might not immediately register the        *)
(*    webview in the app handle's map" (lib.rs:2837, lib.rs:419), so a new *)
(*    webview is first "pending" and becomes "live" by HostRegister;       *)
(*  - the handle returned by add_child acts on its own webview instance    *)
(*    whether or not the label resolves yet;                               *)
(*  - whether a webview is on screen right after add_child is the host's   *)
(*    choice (the code calls show() on it afterwards either way);          *)
(*  - commands declared `fn` run on the main thread, one at a time;        *)
(*    commands declared `async fn` run on the async runtime's workers.     *)
(***************************************************************************)
EXTENDS Integers, FiniteSets, Sequences, Bags, TLC

\* ------------------------------------------------------------------ bounds
MaxCmds == 3

\* the longest url, in pieces, the rewrites are applied to on their own
MaxUrlLen == 4

\* two command slots: enough for two commands to overlap
Procs == {1, 2}
TabLabels == {"a", "b"}
MainLabel == "main"
Labels == TabLabels \cup {MainLabel}
None == "<none>"

VARIABLES
    webviews,            \* host: label -> webview instance (or none)
    current_tab,         \* UiState.current_tab : Option<String>
    lock,                \* holder of the current_tab mutex, 0 when free
    sidebar_open,        \* UiState.sidebar_open
    suggestions_height,  \* UiState.suggestions_height
    vertical_tabs,       \* settings.vertical_tabs
    winW, winH,          \* logical inner size of the main window
    pc, arg, handle, layout,   \* per command in progress
    tabCreated, tabClosed,     \* number of emitted events per label
    last,                \* the most recently completed command
    nextId,              \* host: next webview instance id
    cmds,                \* commands started so far
    crashed,             \* the process was terminated by an escaped panic
    url, tries,          \* per command in progress: its url, navigate's retries
    location,            \* host: the address each webview was last sent to
    probes,              \* the spawned check_and_redirect tasks (a bag)
    calcIn, calcOut,     \* a layout computation on its own: input and result
    resized,             \* host: Resized events not yet handled (sizes, in order)
    corrections,         \* per label: error pages sent by check_and_redirect
    tabNavigation,       \* the tab-navigation events emitted (a bag)
    navResult,           \* what the on_navigation handler last returned
    normIn, normOut,     \* a url rewrite on its own: input and results
    windows,             \* host: the webviews of the PWA and flash windows
    downloads,           \* DownloadManager.downloads: url -> status
    dlRun, dlEvents,     \* per download_file run: its position, the events it emitted
    netChan,             \* the mpsc channel of NetworkState: requests not yet received
    netTx,               \* the sidecar loop's current_response_tx
    netPipe,             \* requests written to the sidecar and not yet answered
    netCall,             \* per run_networking_command caller: its state and result
    history,             \* AppData.history
    histAdds, histLast   \* add_history calls counted, and the url of the latest call

vars == <<webviews, current_tab, lock, sidebar_open, suggestions_height,
          vertical_tabs, winW, winH, pc, arg, handle, layout,
          tabCreated, tabClosed, last, nextId, cmds, crashed,
          url, tries, location, probes, calcIn, calcOut, resized,
          corrections, tabNavigation, navResult, normIn, normOut,
          windows, downloads, dlRun, dlEvents, netChan, netTx, netPipe, netCall,
          history, histAdds, histLast>>

navVars == <<url, tries, location, probes>>
calcVars == <<calcIn, calcOut>>
routerVars == <<tabNavigation, navResult>>
normVars == <<normIn, normOut>>
dlVars == <<downloads, dlRun, dlEvents>>
netVars == <<netChan, netTx, netPipe, netCall>>
histVars == <<history, histAdds, histLast>>
sideVars == <<dlVars, netVars, histVars>>
otherVars == <<corrections, routerVars, normVars, windows, sideVars>>

\* the tab program, as seen from the components that never touch it
programVars == <<webviews, current_tab, lock, sidebar_open, suggestions_height,
                 vertical_tabs, winW, winH, pc, arg, handle, layout,
                 tabCreated, tabClosed, last, nextId, cmds, crashed,
                 url, tries, location, probes, calcIn, calcOut, resized,
                 corrections, tabNavigation, navResult, normIn, normOut, windows>>

uiVars == <<sidebar_open, suggestions_height, vertical_tabs, winW, winH, resized>>

\* ------------------------------------------------------------------ layout
TopBarBase == 104
SidebarWidth == 200
MenuWidth == 320
ToolbarHeight == 60

\* calculate_layout: <<main_height, x, y, width, height>>
\* variant: the top bar keeps its base height whatever the suggestions height
calculate_layoutFixedTopBar(w, h, vertical, menu_open, sh) ==
    IF vertical
    THEN LET w1 == IF menu_open THEN (w - SidebarWidth) - MenuWidth ELSE w - SidebarWidth
             width == IF w1 < 0 THEN 0 ELSE w1
         IN <<h, SidebarWidth, ToolbarHeight, width, h - ToolbarHeight>>
    ELSE LET w1 == IF menu_open THEN w - MenuWidth ELSE w
             width == IF w1 < 0 THEN 0 ELSE w1
             main_height == IF menu_open THEN h ELSE TopBarBase
         IN <<main_height, 0, TopBarBase, width, h - TopBarBase>>

\* variant: with vertical tabs the open panel takes no width from the tab
calculate_layoutMenuIgnored(w, h, vertical, menu_open, sh) ==
    LET top_bar_height == TopBarBase + sh IN
    IF vertical
    THEN LET w1 == w - SidebarWidth
             width == IF w1 < 0 THEN 0 ELSE w1
         IN <<h, SidebarWidth, ToolbarHeight, width, h - ToolbarHeight>>
    ELSE LET w1 == IF menu_open THEN w - MenuWidth ELSE w
             width == IF w1 < 0 THEN 0 ELSE w1
             main_height == IF menu_open THEN h ELSE top_bar_height
         IN <<main_height, 0, top_bar_height, width, h - top_bar_height>>

calculate_layout(w, h, vertical, menu_open, sh) ==
    LET top_bar_height == TopBarBase + sh IN
    IF vertical
    THEN LET w1 == IF menu_open THEN (w - SidebarWidth) - MenuWidth ELSE w - SidebarWidth
             width == IF w1 < 0 THEN 0 ELSE w1
         IN <<h, SidebarWidth, ToolbarHeight, width, h - ToolbarHeight>>
    ELSE LET w1 == IF menu_open THEN w - MenuWidth ELSE w
             width == IF w1 < 0 THEN 0 ELSE w1
             main_height == IF menu_open THEN h ELSE top_bar_height
         IN <<main_height, 0, top_bar_height, width, h - top_bar_height>>

\* variant: with vertical tabs the main webview is sized to the rail alone
LayoutRectsRailOnly(w, h, vertical, menu_open, sh) ==
    LET lay == calculate_layout(w, h, vertical, menu_open, sh) IN
    [primary |-> [x |-> 0, y |-> 0, w |-> IF vertical THEN SidebarWidth ELSE w, h |-> lay[1]],
     tab |-> [x |-> lay[2], y |-> lay[3], w |-> lay[4], h |-> lay[5]]]

\* what update_layout, the Resized handler and create_tab apply: the main
\* webview gets size (window width, main_height) and keeps its position; a tab
\* webview gets position (x, y) and size (width, height)
LayoutRects(w, h, vertical, menu_open, sh) ==
    LET lay == calculate_layout(w, h, vertical, menu_open, sh) IN
    [primary |-> [x |-> 0, y |-> 0, w |-> w, h |-> lay[1]],
     tab |-> [x |-> lay[2], y |-> lay[3], w |-> lay[4], h |-> lay[5]]]

\* ------------------------------------------------------------------ urls
\* A URL is a sequence of pieces; the pieces are the substrings the code
\* tests for, and text that contains none of them.
StartsWith(u, pre) == Len(u) >= Len(pre) /\ SubSeq(u, 1, Len(pre)) = pre

MatchAt(u, pat, i) == i + Len(pat) - 1 <= Len(u) /\ SubSeq(u, i, i + Len(pat) - 1) = pat

Contains(u, pat) == \E i \in 1..Len(u) : MatchAt(u, pat, i)

\* str::replace: every non-overlapping match, left to right
RECURSIVE ReplaceFrom(_, _, _, _)
ReplaceFrom(u, pat, new, i) ==
    IF i > Len(u) THEN <<>>
    ELSE IF MatchAt(u, pat, i) THEN new \o ReplaceFrom(u, pat, new, i + Len(pat))
    ELSE <<u[i]>> \o ReplaceFrom(u, pat, new, i + 1)

Replace(u, pat, new) == ReplaceFrom(u, pat, new, 1)

LuminaScheme == <<"lumina://">>
LuminaAppScheme == <<"lumina-app://">>
LuminaAppLocalhost == <<"lumina-app://", "localhost", "/">>

\* the rewrite at the top of create_tab
NormalizeCreateTab(u) ==
    IF StartsWith(u, LuminaScheme) THEN Replace(u, LuminaScheme, LuminaAppLocalhost)
    ELSE IF StartsWith(u, LuminaAppScheme)
    THEN IF ~Contains(u, LuminaAppLocalhost)
         THEN Replace(u, LuminaAppScheme, LuminaAppLocalhost)
         ELSE u
    ELSE u

\* the rewrite inside navigate
NormalizeNavigate(u) ==
    IF StartsWith(u, LuminaScheme) THEN Replace(u, LuminaScheme, LuminaAppLocalhost)
    ELSE IF StartsWith(u, LuminaAppScheme)
    THEN IF ~Contains(u, LuminaAppLocalhost)
         THEN Replace(u, LuminaAppScheme, LuminaAppLocalhost)
         ELSE u
    ELSE u

\* the rewrite at the top of force_internal_navigate
NormalizeForce(u) ==
    IF StartsWith(u, LuminaScheme) THEN Replace(u, LuminaScheme, LuminaAppLocalhost)
    ELSE IF StartsWith(u, LuminaAppScheme)
    THEN LET rest == Tail(u) IN
         IF ~StartsWith(rest, <<"localhost", "/">>) /\ rest # <<"localhost">>
         THEN LuminaAppScheme \o <<"localhost", "/">> \o rest
         ELSE u
    ELSE u

Schemes == {"lumina://", "lumina-app://", "https://", "tauri://", "file://"}

\* url.parse(): an absolute URL starts with a scheme
UrlParses(u) == Len(u) > 0 /\ u[1] \in Schemes

\* the schemes check_and_redirect returns on at once
ProbeSkipPrefixes == {<<"tauri://">>, <<"file://">>, <<"about:">>, <<"data:">>, <<"lumina://">>}

SkipsProbe(u) == \E pre \in ProbeSkipPrefixes : StartsWith(u, pre)

\* what a webview shows: the page at an address, or the error page for it
Loaded(u) == [error |-> FALSE, url |-> u]
ErrorPage(u) == [error |-> TRUE, url |-> u]

\* the on_navigation handler's answer for a navigation of label to url
NavResult(l, u, allow) == [label |-> l, url |-> u, allow |-> allow]
NoNavResult == NavResult(None, <<>>, FALSE)

\* the three url rewrites applied to one input, before any has run
NotNormalized == [done |-> FALSE, create_tab |-> <<>>, navigate |-> <<>>,
                  force_internal_navigate |-> <<>>]

ExtUrl == <<"https://", "example.com">>
BadUrl == <<"example.com">>
NoUrl == <<>>

\* the urls the tab commands are run with where the address does not matter
TabUrls == {ExtUrl, BadUrl}

\* ------------------------------------------------------------------ host
NoWebview == [st |-> "none", visible |-> FALSE, id |-> 0, x |-> 0, y |-> 0, w |-> 0, h |-> 0]

\* app.get_webview(label).is_some()
Resolves(l) == l \in Labels /\ webviews[l].st = "live"

\* the webview instance behind a handle is still there
HandleLive(l, id) == webviews[l].st # "none" /\ webviews[l].id = id

\* webview.hide() / webview.show() through app.get_webview(label)
SetVisible(wv, l, v) == [wv EXCEPT ![l].visible = v]

\* the tab webviews on screen
VisibleTabs == {l \in TabLabels : webviews[l].st # "none" /\ webviews[l].visible}

Idle(p) == pc[p] = "idle"
NoCommandRunning == \A p \in Procs : Idle(p)
\* switch_tab and close_tab are non-async commands: one main thread runs them
MainThreadFree == \A p \in Procs : pc[p] \notin {"sw_hide", "sw_show", "sw_set"}

\* a command takes the first free slot (the slots are interchangeable)
CanStart(p) ==
    /\ ~crashed
    /\ Idle(p)
    /\ \A q \in Procs : q < p => ~Idle(q)
    /\ cmds < MaxCmds

\* the windows open_pwa_window and open_flash_window build; the webview of
\* such a window carries the window's label
WindowLabels == {"pwa-x", "flash-1"}
NoWindow == [st |-> "none", visible |-> FALSE, x |-> 0, y |-> 0, w |-> 0, h |-> 0]

\* the download_file runs in flight and the urls they fetch
DlRuns == {1, 2}
DlUrls == {"f", "g"}
DlIdle == [pc |-> "idle", url |-> None, chunks |-> 0]
NoDlEvents == [started |-> 0, finished |-> <<>>]

\* the callers of run_networking_command
Callers == {1, 2, 3}
NetIdle == [st |-> "idle", line |-> 0]

InitProgram ==
    /\ webviews = [l \in Labels |->
                     IF l = MainLabel
                     THEN [st |-> "live", visible |-> TRUE, id |-> 0,
                           x |-> 0, y |-> 0, w |-> 1200, h |-> 800]
                     ELSE NoWebview]
    /\ current_tab = None
    /\ lock = 0
    /\ sidebar_open = FALSE
    /\ suggestions_height = 0
    /\ vertical_tabs = FALSE
    /\ winW = 1200
    /\ winH = 800
    /\ pc = [p \in Procs |-> "idle"]
    /\ arg = [p \in Procs |-> None]
    /\ handle = [p \in Procs |-> 0]
    /\ layout = [p \in Procs |-> <<0, 0, 0, 0, 0>>]
    /\ tabCreated = [l \in Labels |-> 0]
    /\ tabClosed = [l \in Labels |-> 0]
    /\ last = [op |-> "none", label |-> None, res |-> "none"]
    /\ nextId = 1
    /\ cmds = 0
    /\ crashed = FALSE
    /\ url = [p \in Procs |-> NoUrl]
    /\ tries = [p \in Procs |-> 0]
    /\ location = [l \in Labels |-> Loaded(NoUrl)]
    /\ probes = EmptyBag
    /\ resized = <<>>
    /\ corrections = [l \in Labels |-> 0]
    /\ tabNavigation = EmptyBag
    /\ navResult = NoNavResult
    /\ windows = [k \in WindowLabels |-> NoWindow]
    /\ downloads = [u \in DlUrls |-> "none"]
    /\ dlRun = [r \in DlRuns |-> DlIdle]
    /\ dlEvents = [r \in DlRuns |-> NoDlEvents]
    /\ netChan = <<>>
    /\ netTx = 0
    /\ netPipe = <<>>
    /\ netCall = [c \in Callers |-> NetIdle]
    /\ history = <<>>
    /\ histAdds = 0
    /\ histLast = 0

\* ------------------------------------------------------------------ layout computation
ZeroRect == [x |-> 0, y |-> 0, w |-> 0, h |-> 0]

CalcInput(w, h, vertical, menu_open, sh) ==
    [w |-> w, h |-> h, vertical |-> vertical, menu_open |-> menu_open, sh |-> sh]

NotCalculated == [res |-> "none", primary |-> ZeroRect, tab |-> ZeroRect]

\* window sizes around every threshold of the computation, and below zero
CalcWidths == {-1, 0, 199, 200, 519, 520, 1200}
CalcHeights == {-1, 0, 59, 60, 103, 104, 800}
CalcSuggestions == {0, 40}

CalcInputs ==
    {CalcInput(w, h, v, m, sh) : w \in CalcWidths, h \in CalcHeights,
                                 v \in BOOLEAN, m \in BOOLEAN, sh \in CalcSuggestions}

Init ==
    /\ InitProgram
    /\ normIn = NoUrl
    /\ normOut = NotNormalized
    /\ calcIn = CalcInput(winW, winH, vertical_tabs, sidebar_open, suggestions_height)
    /\ calcOut = NotCalculated

CalcInit ==
    /\ InitProgram
    /\ normIn = NoUrl
    /\ normOut = NotNormalized
    /\ calcIn \in CalcInputs
    /\ calcOut = NotCalculated

\* the computation has no error path: it returns rectangles for every input
Calculate ==
    /\ calcOut.res = "none"
    /\ LET r == LayoutRects(calcIn.w, calcIn.h, calcIn.vertical, calcIn.menu_open, calcIn.sh) IN
       calcOut' = [res |-> "ok", primary |-> r.primary, tab |-> r.tab]
    /\ UNCHANGED <<webviews, current_tab, lock, uiVars, pc, arg, handle, layout,
                   tabCreated, tabClosed, last, nextId, cmds, crashed, navVars, calcIn, otherVars>>

CalcNext == Calculate

SpecCalc == CalcInit /\ [][CalcNext]_vars



\* ------------------------------------------------------------------ url rewrites
\* the pieces urls are made of: the substrings the rewrites test for, and other text
UrlPieces == {"lumina://", "lumina-app://", "https://", "localhost", "/", "x"}

NormInputs == UNION {[1..n -> UrlPieces] : n \in 1..MaxUrlLen}

NormInit ==
    /\ InitProgram
    /\ calcIn = CalcInput(winW, winH, vertical_tabs, sidebar_open, suggestions_height)
    /\ calcOut = NotCalculated
    /\ normIn \in NormInputs
    /\ normOut = NotNormalized

\* each of the three rewrites applied to the same url
NormalizeUrl ==
    /\ ~normOut.done
    /\ normOut' = [done |-> TRUE,
                   create_tab |-> NormalizeCreateTab(normIn),
                   navigate |-> NormalizeNavigate(normIn),
                   force_internal_navigate |-> NormalizeForce(normIn)]
    /\ UNCHANGED <<webviews, current_tab, lock, uiVars, pc, arg, handle, layout,
                   tabCreated, tabClosed, last, nextId, cmds, crashed, navVars,
                   calcVars, corrections, routerVars, normIn, windows, sideVars>>

NormNext == NormalizeUrl

SpecNorm == NormInit /\ [][NormNext]_vars

\* ------------------------------------------------------------------ create_tab
\* variant: a label that does not resolve is reported as an error
DoneNotFoundIsError(op, l, res) ==
    [op |-> op, label |-> l, res |-> IF res = "not_found" THEN "err_not_found" ELSE res]

Done(op, l, res) == [op |-> op, label |-> l, res |-> res]

\* mutant: the existence check is lost
AlreadyExistsNever(l) == FALSE

\* if app.get_webview(&label).is_some() { return Ok(()) }
AlreadyExists(l) == Resolves(l)

\* variant: the current_tab lock is taken on entry and held across add_child
CreateTabBeginLocked(p, l, u) ==
    /\ CanStart(p)
    /\ cmds' = cmds + 1
    /\ IF AlreadyExists(l)
       THEN /\ last' = Done("create_tab", l, "exists")
            /\ UNCHANGED <<webviews, pc, arg, layout, url>>
       ELSE LET lay == calculate_layout(winW, winH, vertical_tabs, sidebar_open, suggestions_height) IN
            /\ webviews' = IF Resolves(MainLabel)
                           THEN [webviews EXCEPT ![MainLabel].w = winW, ![MainLabel].h = lay[1]]
                           ELSE webviews
            /\ IF UrlParses(NormalizeCreateTab(u))
               THEN /\ pc' = [pc EXCEPT ![p] = "ct_add"]
                    /\ arg' = [arg EXCEPT ![p] = l]
                    /\ layout' = [layout EXCEPT ![p] = lay]
                    /\ url' = [url EXCEPT ![p] = NormalizeCreateTab(u)]
                    /\ UNCHANGED last
               ELSE /\ last' = Done("create_tab", l, "err_url")
                    /\ UNCHANGED <<pc, arg, layout, url>>
    /\ lock' = IF ~AlreadyExists(l) /\ UrlParses(NormalizeCreateTab(u)) /\ lock = 0 THEN p ELSE lock
    /\ UNCHANGED <<current_tab, uiVars, handle, tabCreated, tabClosed, nextId, crashed>>
    /\ UNCHANGED <<tries, location, probes, calcVars, otherVars>>

\* create_tab up to the add_child call: the existence check, the layout, the
\* resize of the main webview and the URL parse.
CreateTabBegin(p, l, u) ==
    /\ CanStart(p)
    /\ cmds' = cmds + 1
    /\ IF AlreadyExists(l)
       THEN /\ last' = Done("create_tab", l, "exists")
            /\ UNCHANGED <<webviews, pc, arg, layout, url>>
       ELSE LET lay == calculate_layout(winW, winH, vertical_tabs, sidebar_open, suggestions_height) IN
            /\ webviews' = IF Resolves(MainLabel)
                           THEN [webviews EXCEPT ![MainLabel].w = winW, ![MainLabel].h = lay[1]]
                           ELSE webviews
            /\ IF UrlParses(NormalizeCreateTab(u))
               THEN /\ pc' = [pc EXCEPT ![p] = "ct_add"]
                    /\ arg' = [arg EXCEPT ![p] = l]
                    /\ layout' = [layout EXCEPT ![p] = lay]
                    /\ url' = [url EXCEPT ![p] = NormalizeCreateTab(u)]
                    /\ UNCHANGED last
               ELSE /\ last' = Done("create_tab", l, "err_url")
                    /\ UNCHANGED <<pc, arg, layout, url>>
    /\ UNCHANGED <<current_tab, lock, uiVars, handle, tabCreated, tabClosed, nextId, crashed>>
    /\ UNCHANGED <<tries, location, probes, calcVars, otherVars>>

\* the command returns: its locals are dropped
Return(p) ==
    /\ pc' = [pc EXCEPT ![p] = "idle"]
    /\ arg' = [arg EXCEPT ![p] = None]
    /\ handle' = [handle EXCEPT ![p] = 0]
    /\ layout' = [layout EXCEPT ![p] = <<0, 0, 0, 0, 0>>]
    /\ url' = [url EXCEPT ![p] = NoUrl]
    /\ tries' = [tries EXCEPT ![p] = 0]

AddChildOutcomes == {"ok", "err", "panic"}

\* mutant: add_child is called without catch_unwind
CatchUnwindMissing(o) == "returned"

\* std::panic::catch_unwind around add_child: a panic becomes Err(payload)
CatchUnwind(o) == IF o = "panic" THEN "caught" ELSE "returned"

\* Err(payload) => return Err("add_child panicked")
AddChildPanicArm(p) ==
    /\ last' = Done("create_tab", arg[p], "err_panic")
    /\ Return(p)
    /\ UNCHANGED <<webviews, current_tab, lock, tabCreated, nextId, crashed>>
    /\ UNCHANGED location

\* mutant: the error is logged but not returned, the command goes on as if
\* the webview had been created
AddChildErrArmSwallowed(p) ==
    /\ tabCreated' = [tabCreated EXCEPT ![arg[p]] = @ + 1]
    /\ last' = Done("create_tab", arg[p], "ok")
    /\ Return(p)
    /\ UNCHANGED <<webviews, current_tab, lock, nextId, crashed>>
    /\ UNCHANGED location

\* Ok(Err(e)) => return Err("Failed to create tab: ...")
AddChildErrArm(p) ==
    /\ last' = Done("create_tab", arg[p], "err_create")
    /\ Return(p)
    /\ UNCHANGED <<webviews, current_tab, lock, tabCreated, nextId, crashed>>
    /\ UNCHANGED location

\* Ok(Ok(webview)): the new webview exists at the computed rectangle; the
\* command keeps the handle
AddChildOkArm(p, vis) ==
    LET l == arg[p]
        lay == layout[p]
    IN
    /\ webviews' = [webviews EXCEPT ![l] =
                      [st |-> "pending", visible |-> vis, id |-> nextId,
                       x |-> lay[2], y |-> lay[3], w |-> lay[4], h |-> lay[5]]]
    /\ handle' = [handle EXCEPT ![p] = nextId]
    /\ nextId' = nextId + 1
    /\ location' = [location EXCEPT ![l] = Loaded(url[p])]
    /\ pc' = [pc EXCEPT ![p] = "ct_hide"]
    /\ UNCHANGED <<current_tab, lock, tabCreated, last, crashed, arg, layout, url, tries>>

\* target_window.add_child(builder, position, size) inside catch_unwind, and the
\* match on its result. The host refuses a label it already has a webview for.
\* A panic that is not caught unwinds out of the command and ends the process.
CreateTabAddChild(p, o, vis) ==
    /\ ~crashed
    /\ pc[p] = "ct_add"
    /\ o = "ok" => webviews[arg[p]].st = "none"
    /\ IF CatchUnwind(o) = "caught" THEN AddChildPanicArm(p)
       ELSE IF o = "panic"
       THEN /\ crashed' = TRUE
            /\ UNCHANGED <<webviews, current_tab, lock, tabCreated, handle,
                           nextId, last, pc, arg, layout, url, tries, location>>
       ELSE IF o = "err" THEN AddChildErrArm(p)
       ELSE AddChildOkArm(p, vis)
    /\ UNCHANGED <<uiVars, tabClosed, cmds, probes, calcVars, otherVars>>

\* the host makes a created webview resolvable by label
HostRegister(l) ==
    /\ ~crashed
    /\ webviews[l].st = "pending"
    /\ webviews' = [webviews EXCEPT ![l].st = "live"]
    /\ UNCHANGED <<current_tab, lock, uiVars, pc, arg, handle, layout,
                   tabCreated, tabClosed, last, nextId, cmds, crashed>>
    /\ UNCHANGED <<navVars, calcVars, otherVars>>

\* lock current_tab; hide the webview the old value resolves to
CreateTabHideOld(p) ==
    /\ ~crashed
    /\ pc[p] = "ct_hide"
    /\ lock = 0
    /\ lock' = p
    /\ webviews' = IF current_tab # None /\ Resolves(current_tab)
                   THEN SetVisible(webviews, current_tab, FALSE)
                   ELSE webviews
    /\ pc' = [pc EXCEPT ![p] = "ct_set"]
    /\ UNCHANGED <<current_tab, uiVars, arg, handle, layout,
                   tabCreated, tabClosed, last, nextId, cmds, crashed>>
    /\ UNCHANGED <<navVars, calcVars, otherVars>>

\* variant: tab-created is emitted as soon as current_tab is set
CreateTabSetCurrentEmits(p) ==
    /\ ~crashed
    /\ pc[p] = "ct_set"
    /\ lock = p
    /\ current_tab' = arg[p]
    /\ lock' = 0
    /\ pc' = [pc EXCEPT ![p] = "ct_show"]
    /\ tabCreated' = [tabCreated EXCEPT ![arg[p]] = @ + 1]
    /\ UNCHANGED <<webviews, uiVars, arg, handle, layout,
                   tabClosed, last, nextId, cmds, crashed>>
    /\ UNCHANGED <<navVars, calcVars, otherVars>>

\* *current = Some(label); the guard is dropped at the end of the block
CreateTabSetCurrent(p) ==
    /\ ~crashed
    /\ pc[p] = "ct_set"
    /\ lock = p
    /\ current_tab' = arg[p]
    /\ lock' = 0
    /\ pc' = [pc EXCEPT ![p] = "ct_show"]
    /\ UNCHANGED <<webviews, uiVars, arg, handle, layout,
                   tabCreated, tabClosed, last, nextId, cmds, crashed>>
    /\ UNCHANGED <<navVars, calcVars, otherVars>>

\* webview.show() on the handle add_child returned
CreateTabShow(p) ==
    /\ ~crashed
    /\ pc[p] = "ct_show"
    /\ webviews' = IF HandleLive(arg[p], handle[p])
                   THEN SetVisible(webviews, arg[p], TRUE)
                   ELSE webviews
    /\ pc' = [pc EXCEPT ![p] = "ct_finish"]
    /\ UNCHANGED <<current_tab, lock, uiVars, arg, handle, layout,
                   tabCreated, tabClosed, last, nextId, cmds, crashed>>
    /\ UNCHANGED <<navVars, calcVars, otherVars>>

\* a check_and_redirect(webview, url) task: it owns a clone of the handle
Probe(l, id, u, st) == [label |-> l, wid |-> id, url |-> u, st |-> st]

\* window.location.replace(url) on the handle, set_size, set_position, emit
\* tab-created, spawn check_and_redirect(webview.clone(), url), Ok(())
CreateTabFinish(p) ==
    LET l == arg[p]
        lay == layout[p]
    IN
    /\ ~crashed
    /\ pc[p] = "ct_finish"
    /\ webviews' = IF HandleLive(l, handle[p])
                   THEN [webviews EXCEPT ![l].x = lay[2], ![l].y = lay[3],
                                         ![l].w = lay[4], ![l].h = lay[5]]
                   ELSE webviews
    /\ location' = IF HandleLive(l, handle[p])
                   THEN [location EXCEPT ![l] = Loaded(url[p])]
                   ELSE location
    /\ tabCreated' = [tabCreated EXCEPT ![l] = @ + 1]
    /\ probes' = probes (+) SetToBag({Probe(l, handle[p], url[p], "spawned")})
    /\ last' = Done("create_tab", l, "ok")
    /\ Return(p)
    /\ UNCHANGED <<current_tab, lock, uiVars, tabClosed, nextId, cmds, crashed, calcVars, otherVars>>

\* ------------------------------------------------------------------ switch_tab
\* the labels app.webviews() iterates over
Registered == {l \in Labels : webviews[l].st = "live"}

\* lock current_tab; hide the old tab, or every other tab when none is tracked
SwitchTabHide(p, l) ==
    /\ CanStart(p)
    /\ MainThreadFree
    /\ lock = 0
    /\ lock' = p
    /\ cmds' = cmds + 1
    /\ webviews' =
         IF current_tab # None
         THEN IF current_tab # l /\ Resolves(current_tab)
              THEN SetVisible(webviews, current_tab, FALSE)
              ELSE webviews
         ELSE [k \in Labels |->
                 IF k \in Registered /\ k # MainLabel /\ k # l
                 THEN [webviews[k] EXCEPT !.visible = FALSE]
                 ELSE webviews[k]]
    /\ windows' =
         IF current_tab # None
         THEN windows
         ELSE [k \in WindowLabels |-> [windows[k] EXCEPT !.visible = FALSE]]
    /\ pc' = [pc EXCEPT ![p] = "sw_show"]
    /\ arg' = [arg EXCEPT ![p] = l]
    /\ UNCHANGED <<current_tab, uiVars, handle, layout,
                   tabCreated, tabClosed, last, nextId, crashed>>
    /\ UNCHANGED <<navVars, calcVars, corrections, routerVars, normVars, sideVars>>

\* show the new tab if the label resolves
SwitchTabShow(p) ==
    /\ ~crashed
    /\ pc[p] = "sw_show"
    /\ webviews' = IF Resolves(arg[p])
                   THEN SetVisible(webviews, arg[p], TRUE)
                   ELSE webviews
    /\ pc' = [pc EXCEPT ![p] = "sw_set"]
    /\ UNCHANGED <<current_tab, lock, uiVars, arg, handle, layout,
                   tabCreated, tabClosed, last, nextId, cmds, crashed>>
    /\ UNCHANGED <<navVars, calcVars, otherVars>>

\* *current = Some(label)
SwitchTabSet(p) ==
    /\ ~crashed
    /\ pc[p] = "sw_set"
    /\ lock = p
    /\ current_tab' = arg[p]
    /\ lock' = 0
    /\ last' = Done("switch_tab", arg[p], "ok")
    /\ Return(p)
    /\ UNCHANGED <<webviews, uiVars, tabCreated, tabClosed, nextId, cmds, crashed>>
    /\ UNCHANGED <<location, probes, calcVars, otherVars>>

\* ------------------------------------------------------------------ close_tab
\* mutant: closing a tab brings another registered tab to the foreground
CloseTabPromote(p, l) ==
    /\ CanStart(p)
    /\ MainThreadFree
    /\ cmds' = cmds + 1
    /\ IF Resolves(l)
       THEN /\ webviews' = [k \in Labels |->
                              IF k = l THEN NoWebview
                              ELSE IF k \in TabLabels /\ Resolves(k)
                                   THEN [webviews[k] EXCEPT !.visible = TRUE]
                                   ELSE webviews[k]]
            /\ tabClosed' = [tabClosed EXCEPT ![l] = @ + 1]
       ELSE UNCHANGED <<webviews, tabClosed>>
    /\ last' = Done("close_tab", l, "ok")
    /\ UNCHANGED <<current_tab, lock, uiVars, pc, arg, handle, layout,
                   tabCreated, nextId, crashed>>
    /\ UNCHANGED <<navVars, calcVars, otherVars>>

\* mutant: tab-closed is emitted whether or not the label resolved
CloseTabAlwaysEmits(p, l) ==
    /\ CanStart(p)
    /\ MainThreadFree
    /\ cmds' = cmds + 1
    /\ webviews' = IF Resolves(l) THEN [webviews EXCEPT ![l] = NoWebview] ELSE webviews
    /\ tabClosed' = [tabClosed EXCEPT ![l] = @ + 1]
    /\ last' = Done("close_tab", l, "ok")
    /\ UNCHANGED <<current_tab, lock, uiVars, pc, arg, handle, layout,
                   tabCreated, nextId, crashed>>
    /\ UNCHANGED <<navVars, calcVars, otherVars>>

\* close_tab: close the webview the label resolves to and emit tab-closed
CloseTab(p, l) ==
    /\ CanStart(p)
    /\ MainThreadFree
    /\ cmds' = cmds + 1
    /\ IF Resolves(l)
       THEN /\ webviews' = [webviews EXCEPT ![l] = NoWebview]
            /\ tabClosed' = [tabClosed EXCEPT ![l] = @ + 1]
       ELSE UNCHANGED <<webviews, tabClosed>>
    /\ last' = Done("close_tab", l, "ok")
    /\ UNCHANGED <<current_tab, lock, uiVars, pc, arg, handle, layout,
                   tabCreated, nextId, crashed>>
    /\ UNCHANGED <<navVars, calcVars, otherVars>>

\* ------------------------------------------------------------------ layout commands
\* the window sizes the host resizes the main window to
WinSizes == {<<1200, 800>>, <<800, 600>>}

\* the heights the front end reports for the suggestions panel
SuggestionHeights == {0, 40}

\* variant: placing a tab webview also shows it
ApplyLayoutShowsTabs(wv, w, h, vertical, menu_open, sh) ==
    LET r == LayoutRects(w, h, vertical, menu_open, sh) IN
    [l \in Labels |->
        IF wv[l].st # "live" THEN wv[l]
        ELSE IF l = MainLabel
        THEN [wv[l] EXCEPT !.w = r.primary.w, !.h = r.primary.h]
        ELSE [wv[l] EXCEPT !.x = r.tab.x, !.y = r.tab.y, !.w = r.tab.w, !.h = r.tab.h,
                           !.visible = TRUE]]

\* the body shared by update_layout and the Resized handler: size the main
\* webview, then place every webview of app.webviews() other than "main"
ApplyLayout(wv, w, h, vertical, menu_open, sh) ==
    LET r == LayoutRects(w, h, vertical, menu_open, sh) IN
    [l \in Labels |->
        IF wv[l].st # "live" THEN wv[l]
        ELSE IF l = MainLabel
        THEN [wv[l] EXCEPT !.w = r.primary.w, !.h = r.primary.h]
        ELSE [wv[l] EXCEPT !.x = r.tab.x, !.y = r.tab.y, !.w = r.tab.w, !.h = r.tab.h]]

\* the same loop reaches the webviews of the other windows: app.webviews()
\* lists every webview of the application and only "main" is skipped
PlaceWindows(ww, w, h, vertical, menu_open, sh) ==
    LET r == LayoutRects(w, h, vertical, menu_open, sh) IN
    [k \in WindowLabels |->
        IF ww[k].st # "live" THEN ww[k]
        ELSE [ww[k] EXCEPT !.x = r.tab.x, !.y = r.tab.y, !.w = r.tab.w, !.h = r.tab.h]]

\* a non-async command: it runs to completion on the main thread
CanRun == ~crashed /\ MainThreadFree /\ cmds < MaxCmds

LayoutFrame ==
    UNCHANGED <<current_tab, lock, pc, arg, handle, layout, tabCreated, tabClosed,
                nextId, crashed, navVars, calcVars, corrections, routerVars, normVars,
                sideVars>>

toggle_sidebar(open) ==
    /\ CanRun
    /\ cmds' = cmds + 1
    /\ sidebar_open' = open
    /\ webviews' = ApplyLayout(webviews, winW, winH, vertical_tabs, open, suggestions_height)
    /\ windows' = PlaceWindows(windows, winW, winH, vertical_tabs, open, suggestions_height)
    /\ last' = Done("toggle_sidebar", None, "ok")
    /\ UNCHANGED <<suggestions_height, vertical_tabs, winW, winH, resized>>
    /\ LayoutFrame

set_suggestions_height(height) ==
    /\ CanRun
    /\ cmds' = cmds + 1
    /\ suggestions_height' = height
    /\ webviews' = ApplyLayout(webviews, winW, winH, vertical_tabs, sidebar_open, height)
    /\ windows' = PlaceWindows(windows, winW, winH, vertical_tabs, sidebar_open, height)
    /\ last' = Done("set_suggestions_height", None, "ok")
    /\ UNCHANGED <<sidebar_open, vertical_tabs, winW, winH, resized>>
    /\ LayoutFrame

save_settings(vertical) ==
    /\ CanRun
    /\ cmds' = cmds + 1
    /\ vertical_tabs' = vertical
    /\ webviews' = ApplyLayout(webviews, winW, winH, vertical, sidebar_open, suggestions_height)
    /\ windows' = PlaceWindows(windows, winW, winH, vertical, sidebar_open, suggestions_height)
    /\ last' = Done("save_settings", None, "ok")
    /\ UNCHANGED <<sidebar_open, suggestions_height, winW, winH, resized>>
    /\ LayoutFrame

\* the host resizes the main window and queues the Resized event
WindowResize(size) ==
    /\ ~crashed
    /\ cmds < MaxCmds
    /\ <<winW, winH>> # size
    /\ cmds' = cmds + 1
    /\ winW' = size[1]
    /\ winH' = size[2]
    /\ resized' = Append(resized, size)
    /\ UNCHANGED <<webviews, windows, sidebar_open, suggestions_height, vertical_tabs, last>>
    /\ LayoutFrame

\* the on_window_event handler for Resized(size) of the main window
ResizedHandler ==
    /\ ~crashed
    /\ MainThreadFree
    /\ resized # <<>>
    /\ LET size == Head(resized) IN
       /\ webviews' = ApplyLayout(webviews, size[1], size[2], vertical_tabs, sidebar_open,
                                  suggestions_height)
       /\ windows' = PlaceWindows(windows, size[1], size[2], vertical_tabs, sidebar_open,
                                  suggestions_height)
    /\ resized' = Tail(resized)
    /\ last' = Done("resized", None, "ok")
    /\ UNCHANGED <<sidebar_open, suggestions_height, vertical_tabs, winW, winH, cmds>>
    /\ LayoutFrame

\* ------------------------------------------------------------------ navigate
NavRetries == 10

\* the addresses navigate and create_tab are run with
NavUrls ==
    {ExtUrl,
     <<"lumina://", "settings">>,
     <<"lumina-app://", "localhost", "/", "settings">>,
     <<"lumina-app://", "settings">>}

\* app.get_webview(&label); not found: go to sleep before the first retry
NavigateBegin(p, l, u) ==
    /\ CanStart(p)
    /\ cmds' = cmds + 1
    /\ arg' = [arg EXCEPT ![p] = l]
    /\ url' = [url EXCEPT ![p] = u]
    /\ IF Resolves(l)
       THEN /\ handle' = [handle EXCEPT ![p] = webviews[l].id]
            /\ pc' = [pc EXCEPT ![p] = "nav_go"]
       ELSE /\ pc' = [pc EXCEPT ![p] = "nav_sleep"]
            /\ UNCHANGED handle
    /\ UNCHANGED <<webviews, current_tab, lock, uiVars, layout, tabCreated, tabClosed,
                   last, nextId, crashed, tries, location, probes, calcVars, otherVars>>

\* variant: the loop has no last round
NavigateRetryForever(p) ==
    /\ ~crashed
    /\ pc[p] = "nav_sleep"
    /\ IF Resolves(arg[p])
       THEN /\ handle' = [handle EXCEPT ![p] = webviews[arg[p]].id]
            /\ tries' = [tries EXCEPT ![p] = @ + 1]
            /\ pc' = [pc EXCEPT ![p] = "nav_go"]
            /\ UNCHANGED <<arg, layout, url, last>>
       ELSE IF tries[p] + 1 < NavRetries
       THEN /\ tries' = [tries EXCEPT ![p] = @ + 1]
            /\ UNCHANGED <<pc, arg, handle, layout, url, last>>
       ELSE UNCHANGED <<pc, arg, handle, layout, url, tries, last>>
    /\ UNCHANGED <<webviews, current_tab, lock, uiVars, tabCreated, tabClosed,
                   nextId, cmds, crashed, location, probes, calcVars, otherVars>>

\* one round of the retry loop: sleep 100 ms, look the label up again; after
\* the last round the command logs and returns
NavigateRetry(p) ==
    /\ ~crashed
    /\ pc[p] = "nav_sleep"
    /\ IF Resolves(arg[p])
       THEN /\ handle' = [handle EXCEPT ![p] = webviews[arg[p]].id]
            /\ tries' = [tries EXCEPT ![p] = @ + 1]
            /\ pc' = [pc EXCEPT ![p] = "nav_go"]
            /\ UNCHANGED <<arg, layout, url, last>>
       ELSE IF tries[p] + 1 < NavRetries
       THEN /\ tries' = [tries EXCEPT ![p] = @ + 1]
            /\ UNCHANGED <<pc, arg, handle, layout, url, last>>
       ELSE /\ last' = Done("navigate", arg[p], "not_found")
            /\ Return(p)
    /\ UNCHANGED <<webviews, current_tab, lock, uiVars, tabCreated, tabClosed,
                   nextId, cmds, crashed, location, probes, calcVars, otherVars>>

\* set_focus, window.location.assign(target_url) on the handle, spawn
\* check_and_redirect(webview.clone(), target_url)
NavigateGo(p) ==
    /\ ~crashed
    /\ pc[p] = "nav_go"
    /\ LET l == arg[p]
           target_url == NormalizeNavigate(url[p]) IN
       /\ location' = IF HandleLive(l, handle[p])
                      THEN [location EXCEPT ![l] = Loaded(target_url)]
                      ELSE location
       /\ probes' = probes (+) SetToBag({Probe(l, handle[p], target_url, "spawned")})
       /\ last' = Done("navigate", l, "ok")
    /\ Return(p)
    /\ UNCHANGED <<webviews, current_tab, lock, uiVars, tabCreated, tabClosed,
                   nextId, cmds, crashed, calcVars, otherVars>>

\* ------------------------------------------------------------------ check_and_redirect
ProbeFrame ==
    UNCHANGED <<webviews, current_tab, lock, uiVars, pc, arg, handle, layout,
                tabCreated, tabClosed, last, nextId, cmds, crashed, url, tries, calcVars,
                routerVars, normVars, windows, sideVars>>

\* the task starts: it returns at once for a skipped scheme, otherwise it
\* sends the request and awaits the response
ProbeStart(t) ==
    /\ ~crashed
    /\ BagIn(t, probes)
    /\ t.st = "spawned"
    /\ probes' = IF SkipsProbe(t.url)
                 THEN probes (-) SetToBag({t})
                 ELSE (probes (-) SetToBag({t})) (+) SetToBag({[t EXCEPT !.st = "waiting"]})
    /\ UNCHANGED <<location, corrections>>
    /\ ProbeFrame

\* what send().await can return: a response of any status, or an error that
\* is_connect, is_timeout, is_body, or none of these
ProbeOutcomes == {"response", "connect", "timeout", "body", "other"}

\* a request to an address that is not http(s) fails before it is sent
OutcomesFor(u) == IF u[1] = "https://" THEN ProbeOutcomes ELSE {"other"}

\* variant: only a timeout counts as unreachable
UnreachableOnlyTimeout(outcome) == outcome = "timeout"

Unreachable(outcome) == outcome \in {"connect", "timeout", "body"}

\* variant: the correction goes to whatever webview the label names now
ProbeFinishByLabel(t, outcome) ==
    /\ ~crashed
    /\ BagIn(t, probes)
    /\ t.st = "waiting"
    /\ outcome \in OutcomesFor(t.url)
    /\ probes' = probes (-) SetToBag({t})
    /\ location' = IF Unreachable(outcome) /\ webviews[t.label].st # "none"
                   THEN [location EXCEPT ![t.label] = ErrorPage(t.url)]
                   ELSE location
    /\ corrections' = IF Unreachable(outcome) /\ webviews[t.label].st # "none"
                      THEN [corrections EXCEPT ![t.label] = @ + 1]
                      ELSE corrections
    /\ ProbeFrame

\* the request completes; an unreachable destination sends the held handle to
\* the error page
ProbeFinish(t, outcome) ==
    /\ ~crashed
    /\ BagIn(t, probes)
    /\ t.st = "waiting"
    /\ outcome \in OutcomesFor(t.url)
    /\ probes' = probes (-) SetToBag({t})
    /\ location' = IF Unreachable(outcome) /\ HandleLive(t.label, t.wid)
                   THEN [location EXCEPT ![t.label] = ErrorPage(t.url)]
                   ELSE location
    /\ corrections' = IF Unreachable(outcome) /\ HandleLive(t.label, t.wid)
                      THEN [corrections EXCEPT ![t.label] = @ + 1]
                      ELSE corrections
    /\ ProbeFrame

\* ------------------------------------------------------------------ on_navigation
\* the payload of a tab-navigation event
TabNavigationPayload(l, u) == [label |-> l, url |-> u]

\* the webview of tab l starts a navigation to u (a link, a script, or an eval
\* sent by a command) and calls the handler create_tab installed on it: a
\* lumina-app url is allowed at once, any other is announced and allowed
OnNavigation(l, u) ==
    /\ ~crashed
    /\ MainThreadFree
    /\ cmds < MaxCmds
    /\ l \in TabLabels
    /\ webviews[l].st # "none"
    /\ cmds' = cmds + 1
    /\ tabNavigation' = IF u[1] = "lumina-app://"
                        THEN tabNavigation
                        ELSE tabNavigation (+) SetToBag({TabNavigationPayload(l, u)})
    /\ navResult' = NavResult(l, u, TRUE)
    /\ location' = [location EXCEPT ![l] = Loaded(u)]
    /\ UNCHANGED <<webviews, current_tab, lock, uiVars, pc, arg, handle, layout,
                   tabCreated, tabClosed, last, nextId, crashed, url, tries, probes,
                   corrections, calcVars, normVars, windows, sideVars>>

\* ------------------------------------------------------------------ pwa and flash windows
\* inner_size of the builders: 1024 x 768 for a PWA window, 800 x 600 for a
\* flash window; the webview fills its window
NewWindow(k) ==
    IF k = "pwa-x"
    THEN [st |-> "live", visible |-> TRUE, x |-> 0, y |-> 0, w |-> 1024, h |-> 768]
    ELSE [st |-> "live", visible |-> TRUE, x |-> 0, y |-> 0, w |-> 800, h |-> 600]

WindowFrame ==
    UNCHANGED <<webviews, current_tab, lock, uiVars, pc, arg, handle, layout,
                tabCreated, tabClosed, nextId, crashed, navVars, calcVars,
                corrections, routerVars, normVars, sideVars>>

\* open_pwa_window: an existing window of the label is focused; otherwise the
\* url is parsed and the window is built
open_pwa_window(u) ==
    /\ ~crashed
    /\ cmds < MaxCmds
    /\ cmds' = cmds + 1
    /\ IF windows["pwa-x"].st = "live"
       THEN /\ last' = Done("open_pwa_window", "pwa-x", "ok")
            /\ UNCHANGED windows
       ELSE IF ~UrlParses(u)
       THEN /\ last' = Done("open_pwa_window", "pwa-x", "Invalid URL")
            /\ UNCHANGED windows
       ELSE /\ windows' = [windows EXCEPT !["pwa-x"] = NewWindow("pwa-x")]
            /\ last' = Done("open_pwa_window", "pwa-x", "ok")
    /\ WindowFrame

\* open_flash_window: the label is new on every call
open_flash_window(u) ==
    /\ ~crashed
    /\ cmds < MaxCmds
    /\ windows["flash-1"].st = "none"
    /\ cmds' = cmds + 1
    /\ IF ~UrlParses(u)
       THEN /\ last' = Done("open_flash_window", "flash-1", "Invalid URL")
            /\ UNCHANGED windows
       ELSE /\ windows' = [windows EXCEPT !["flash-1"] = NewWindow("flash-1")]
            /\ last' = Done("open_flash_window", "flash-1", "ok")
    /\ WindowFrame

\* ------------------------------------------------------------------ download_file
MaxChunks == 2

\* DownloadManager::update_status: the record of the url, if there is one,
\* gets the status
update_status(dl, u, status) ==
    IF dl[u] # "none" THEN [dl EXCEPT ![u] = status] ELSE dl

DlFrame == UNCHANGED <<programVars, netVars, histVars>>

\* the run registers the record as "downloading", saves and emits
\* download-started; then it sends the request
DownloadBegin(r, u) ==
    /\ dlRun[r].pc = "idle"
    /\ \A q \in DlRuns : q < r => dlRun[q].pc # "idle"
    /\ downloads' = [downloads EXCEPT ![u] = "downloading"]
    /\ dlEvents' = [dlEvents EXCEPT ![r].started = @ + 1]
    /\ dlRun' = [dlRun EXCEPT ![r] = [pc |-> "send", url |-> u, chunks |-> 0]]
    /\ DlFrame

\* the ways request.send().await returns
SendOutcomes == {"ok", "partial", "err"}

\* send() has returned: an error marks the record failed and announces the
\* end; a response goes on to open the file
DownloadSend(r, outcome) ==
    /\ dlRun[r].pc = "send"
    /\ IF outcome = "err"
       THEN /\ downloads' = update_status(downloads, dlRun[r].url, "failed")
            /\ dlEvents' = [dlEvents EXCEPT ![r].finished = Append(@, FALSE)]
            /\ dlRun' = [dlRun EXCEPT ![r].pc = "done"]
       ELSE /\ dlRun' = [dlRun EXCEPT ![r].pc = "open"]
            /\ UNCHANGED <<downloads, dlEvents>>
    /\ DlFrame

\* the file is opened for append (206) or created; a failure marks the
\* record failed and announces the end
DownloadOpen(r, opened) ==
    /\ dlRun[r].pc = "open"
    /\ IF opened
       THEN /\ dlRun' = [dlRun EXCEPT ![r].pc = "stream"]
            /\ UNCHANGED <<downloads, dlEvents>>
       ELSE /\ downloads' = update_status(downloads, dlRun[r].url, "failed")
            /\ dlEvents' = [dlEvents EXCEPT ![r].finished = Append(@, FALSE)]
            /\ dlRun' = [dlRun EXCEPT ![r].pc = "done"]
    /\ DlFrame

\* what one turn of the stream loop meets: a chunk that is written, a chunk
\* whose write fails, a stream error, or the end of the stream
StreamItems == {"chunk", "write_err", "stream_err", "end"}

\* one turn of `while let Some(item) = stream.next().await`, and what follows
\* the loop when the stream has ended
DownloadStream(r, item) ==
    /\ dlRun[r].pc = "stream"
    /\ CASE item = "chunk" ->
              /\ dlRun[r].chunks < MaxChunks
              /\ dlRun' = [dlRun EXCEPT ![r].chunks = @ + 1]
              /\ UNCHANGED <<downloads, dlEvents>>
         [] item \in {"write_err", "stream_err"} ->
              /\ downloads' = update_status(downloads, dlRun[r].url, "failed")
              /\ dlRun' = [dlRun EXCEPT ![r].pc = "done"]
              /\ UNCHANGED dlEvents
         [] item = "end" ->
              /\ downloads' = update_status(downloads, dlRun[r].url, "completed")
              /\ dlEvents' = [dlEvents EXCEPT ![r].finished = Append(@, TRUE)]
              /\ dlRun' = [dlRun EXCEPT ![r].pc = "done"]
    /\ DlFrame

NextDownload ==
    \/ \E r \in DlRuns, u \in DlUrls : DownloadBegin(r, u)
    \/ \E r \in DlRuns, outcome \in SendOutcomes : DownloadSend(r, outcome)
    \/ \E r \in DlRuns, opened \in BOOLEAN : DownloadOpen(r, opened)
    \/ \E r \in DlRuns, item \in StreamItems : DownloadStream(r, item)

SpecDownload == Init /\ [][NextDownload]_vars

\* ------------------------------------------------------------------ network sidecar
\* A request is named by its caller. The sidecar answers the requests written
\* to it in order, one output line each; line n is the answer to request n.
NetFrame == UNCHANGED <<programVars, dlVars, histVars>>

\* run_networking_command: make the oneshot channel, send the request into
\* the mpsc channel, then await the oneshot receiver
NetSend(c) ==
    /\ netCall[c].st = "idle"
    /\ netChan' = Append(netChan, c)
    /\ netCall' = [netCall EXCEPT ![c].st = "waiting"]
    /\ UNCHANGED <<netTx, netPipe>>
    /\ NetFrame

\* the rx.recv() arm of the loop: the request's sender replaces
\* current_response_tx, and the request is written to the sidecar. A sender
\* that is replaced is dropped: its caller's rx.await returns an error.
LoopRecv ==
    /\ netChan # <<>>
    /\ LET c == Head(netChan) IN
       /\ netTx' = c
       /\ netPipe' = Append(netPipe, c)
       /\ netCall' = IF netTx # 0
                     THEN [netCall EXCEPT ![netTx].st = "err"]
                     ELSE netCall
    /\ netChan' = Tail(netChan)
    /\ NetFrame

\* the sidecar_rx.recv() arm on CommandEvent::Stdout(line): the line goes to
\* the sender current_response_tx holds, if any, and the slot is emptied
LoopStdout ==
    /\ netPipe # <<>>
    /\ netCall' = IF netTx # 0
                  THEN [netCall EXCEPT ![netTx] = [st |-> "ok", line |-> Head(netPipe)]]
                  ELSE netCall
    /\ netTx' = 0
    /\ netPipe' = Tail(netPipe)
    /\ UNCHANGED netChan
    /\ NetFrame

NextNet ==
    \/ \E c \in Callers : NetSend(c)
    \/ LoopRecv
    \/ LoopStdout

SpecNet == Init /\ [][NextNet]_vars

\* ------------------------------------------------------------------ add_history
HistoryLimit == 100
MaxHistAdds == 3

\* Vec::remove(pos)
RemoveAt(h, pos) == SubSeq(h, 1, pos - 1) \o SubSeq(h, pos + 1, Len(h))

\* iter().position(|x| x.url == url): the first index holding the url
Position(h, u) == CHOOSE i \in 1..Len(h) : h[i] = u /\ \A j \in 1..(i - 1) : h[j] # u

\* variant: the list is never cut
add_historyNoTruncate(h, u) ==
    LET removed == IF \E i \in 1..Len(h) : h[i] = u THEN RemoveAt(h, Position(h, u)) ELSE h
    IN  <<u>> \o removed

\* AppDataStore::add_history on the list of stored urls: drop the entry of the
\* same url, insert at the front, cut to the limit
add_history(h, u) ==
    LET removed == IF \E i \in 1..Len(h) : h[i] = u THEN RemoveAt(h, Position(h, u)) ELSE h
        inserted == <<u>> \o removed
    IN  IF Len(inserted) > HistoryLimit THEN SubSeq(inserted, 1, HistoryLimit) ELSE inserted

\* the urls the counted calls add: the oldest, a middle and the newest entry
\* of a full store, and two beyond it
HistUrls == {1, HistoryLimit \div 2, HistoryLimit, HistoryLimit + 1, HistoryLimit + 2}

HistFrame == UNCHANGED <<programVars, dlVars, netVars>>

\* the store's earlier life: add_history of the urls 1, 2, ... in turn, each
\* one new to the store
FillHistory ==
    /\ histAdds = 0
    /\ Len(history) < HistoryLimit
    /\ history' = add_history(history, Len(history) + 1)
    /\ histLast' = Len(history) + 1
    /\ UNCHANGED histAdds
    /\ HistFrame

\* add_history_item -> state.add_history(url, title), under the data mutex
AddHistory(u) ==
    /\ histAdds < MaxHistAdds
    /\ history' = add_history(history, u)
    /\ histAdds' = histAdds + 1
    /\ histLast' = u
    /\ HistFrame

NextHistory ==
    \/ FillHistory
    \/ \E u \in HistUrls : AddHistory(u)

SpecHistory == Init /\ [][NextHistory]_vars

\* ------------------------------------------------------------------ specifications
Next ==
    \/ \E p \in Procs, l \in Labels, u \in TabUrls : CreateTabBegin(p, l, u)
    \/ \E p \in Procs, o \in AddChildOutcomes, v \in BOOLEAN : CreateTabAddChild(p, o, v)
    \/ \E l \in Labels : HostRegister(l)
    \/ \E p \in Procs : CreateTabHideOld(p)
    \/ \E p \in Procs : CreateTabSetCurrent(p)
    \/ \E p \in Procs : CreateTabShow(p)
    \/ \E p \in Procs : CreateTabFinish(p)
    \/ \E p \in Procs, l \in Labels : SwitchTabHide(p, l)
    \/ \E p \in Procs : SwitchTabShow(p)
    \/ \E p \in Procs : SwitchTabSet(p)
    \/ \E p \in Procs, l \in Labels : CloseTab(p, l)

Spec == Init /\ [][Next]_vars

\* one command at a time: a command starts only when none is in progress
NextSeq ==
    \/ \E p \in Procs, l \in Labels, u \in TabUrls : NoCommandRunning /\ CreateTabBegin(p, l, u)
    \/ \E p \in Procs, o \in AddChildOutcomes, v \in BOOLEAN : CreateTabAddChild(p, o, v)
    \/ \E l \in Labels : HostRegister(l)
    \/ \E p \in Procs : CreateTabHideOld(p)
    \/ \E p \in Procs : CreateTabSetCurrent(p)
    \/ \E p \in Procs : CreateTabShow(p)
    \/ \E p \in Procs : CreateTabFinish(p)
    \/ \E p \in Procs, l \in Labels : NoCommandRunning /\ SwitchTabHide(p, l)
    \/ \E p \in Procs : SwitchTabShow(p)
    \/ \E p \in Procs : SwitchTabSet(p)
    \/ \E p \in Procs, l \in Labels : NoCommandRunning /\ CloseTab(p, l)

SpecSeq == Init /\ [][NextSeq]_vars

\* tab creation interleaved with the layout commands and window resizes
NextLayout ==
    \/ \E p \in Procs, l \in TabLabels : CreateTabBegin(p, l, ExtUrl)
    \/ \E p \in Procs, o \in AddChildOutcomes, vis \in BOOLEAN : CreateTabAddChild(p, o, vis)
    \/ \E l \in TabLabels : HostRegister(l)
    \/ \E p \in Procs : CreateTabHideOld(p)
    \/ \E p \in Procs : CreateTabSetCurrent(p)
    \/ \E p \in Procs : CreateTabShow(p)
    \/ \E p \in Procs : CreateTabFinish(p)
    \/ \E open \in BOOLEAN : toggle_sidebar(open)
    \/ \E height \in SuggestionHeights : set_suggestions_height(height)
    \/ \E vertical \in BOOLEAN : save_settings(vertical)
    \/ \E size \in WinSizes : WindowResize(size)
    \/ ResizedHandler

SpecLayout == Init /\ [][NextLayout]_vars

\* the label the navigation commands are run with
NavLabels == {"a"}

\* tab creation and closing, navigate and the reachability tasks
NextNav ==
    \/ \E p \in Procs, l \in NavLabels, u \in NavUrls : CreateTabBegin(p, l, u)
    \/ \E p \in Procs, o \in AddChildOutcomes, vis \in BOOLEAN : CreateTabAddChild(p, o, vis)
    \/ \E l \in NavLabels : HostRegister(l)
    \/ \E p \in Procs : CreateTabHideOld(p)
    \/ \E p \in Procs : CreateTabSetCurrent(p)
    \/ \E p \in Procs : CreateTabShow(p)
    \/ \E p \in Procs : CreateTabFinish(p)
    \/ \E p \in Procs, l \in NavLabels : CloseTab(p, l)
    \/ \E p \in Procs, l \in NavLabels, u \in NavUrls : NavigateBegin(p, l, u)
    \/ \E p \in Procs : NavigateRetry(p)
    \/ \E p \in Procs : NavigateGo(p)
    \/ \E t \in BagToSet(probes) : ProbeStart(t)
    \/ \E t \in BagToSet(probes), outcome \in ProbeOutcomes : ProbeFinish(t, outcome)

SpecNav == Init /\ [][NextNav]_vars

\* tab creation and closing, the navigations the tabs report, and the
\* reachability tasks
NextRouter ==
    \/ \E p \in Procs, l \in NavLabels, u \in NavUrls : CreateTabBegin(p, l, u)
    \/ \E p \in Procs, o \in AddChildOutcomes, vis \in BOOLEAN : CreateTabAddChild(p, o, vis)
    \/ \E l \in NavLabels : HostRegister(l)
    \/ \E p \in Procs : CreateTabHideOld(p)
    \/ \E p \in Procs : CreateTabSetCurrent(p)
    \/ \E p \in Procs : CreateTabShow(p)
    \/ \E p \in Procs : CreateTabFinish(p)
    \/ \E p \in Procs, l \in NavLabels : CloseTab(p, l)
    \/ \E l \in NavLabels, u \in NavUrls : OnNavigation(l, u)
    \/ \E t \in BagToSet(probes) : ProbeStart(t)
    \/ \E t \in BagToSet(probes), outcome \in ProbeOutcomes : ProbeFinish(t, outcome)

SpecRouter == Init /\ [][NextRouter]_vars

\* navigate beside the creation and closing of the tab it names; the runtime
\* keeps polling a spawned command, and a sleep ends
NextNavigate ==
    \/ \E p \in Procs, l \in NavLabels : CreateTabBegin(p, l, ExtUrl)
    \/ \E p \in Procs, o \in AddChildOutcomes, vis \in BOOLEAN : CreateTabAddChild(p, o, vis)
    \/ \E l \in NavLabels : HostRegister(l)
    \/ \E p \in Procs : CreateTabHideOld(p)
    \/ \E p \in Procs : CreateTabSetCurrent(p)
    \/ \E p \in Procs : CreateTabShow(p)
    \/ \E p \in Procs : CreateTabFinish(p)
    \/ \E p \in Procs, l \in NavLabels : CloseTab(p, l)
    \/ \E p \in Procs, l \in NavLabels, u \in NavUrls : NavigateBegin(p, l, u)
    \/ \E p \in Procs : NavigateRetry(p)
    \/ \E p \in Procs : NavigateGo(p)

\* the PWA and flash windows next to tab creation, switch_tab and the layout
\* commands
NextWindows ==
    \/ \E u \in {ExtUrl, BadUrl} : open_pwa_window(u)
    \/ \E u \in {ExtUrl, BadUrl} : open_flash_window(u)
    \/ \E p \in Procs, l \in NavLabels : NoCommandRunning /\ CreateTabBegin(p, l, ExtUrl)
    \/ \E p \in Procs, o \in AddChildOutcomes, vis \in BOOLEAN : CreateTabAddChild(p, o, vis)
    \/ \E l \in NavLabels : HostRegister(l)
    \/ \E p \in Procs : CreateTabHideOld(p)
    \/ \E p \in Procs : CreateTabSetCurrent(p)
    \/ \E p \in Procs : CreateTabShow(p)
    \/ \E p \in Procs : CreateTabFinish(p)
    \/ \E p \in Procs, l \in NavLabels : NoCommandRunning /\ SwitchTabHide(p, l)
    \/ \E p \in Procs : SwitchTabShow(p)
    \/ \E p \in Procs : SwitchTabSet(p)
    \/ \E open \in BOOLEAN : NoCommandRunning /\ toggle_sidebar(open)
    \/ \E height \in SuggestionHeights : NoCommandRunning /\ set_suggestions_height(height)
    \/ \E size \in WinSizes : WindowResize(size)
    \/ ResizedHandler

SpecWindows == Init /\ [][NextWindows]_vars

\* every command, one at a time
NextAllSeq ==
    \/ \E p \in Procs, l \in NavLabels, u \in TabUrls : NoCommandRunning /\ CreateTabBegin(p, l, u)
    \/ \E p \in Procs, o \in AddChildOutcomes, vis \in BOOLEAN : CreateTabAddChild(p, o, vis)
    \/ \E l \in NavLabels : HostRegister(l)
    \/ \E p \in Procs : CreateTabHideOld(p)
    \/ \E p \in Procs : CreateTabSetCurrent(p)
    \/ \E p \in Procs : CreateTabShow(p)
    \/ \E p \in Procs : CreateTabFinish(p)
    \/ \E p \in Procs, l \in TabLabels : NoCommandRunning /\ SwitchTabHide(p, l)
    \/ \E p \in Procs : SwitchTabShow(p)
    \/ \E p \in Procs : SwitchTabSet(p)
    \/ \E p \in Procs, l \in TabLabels : NoCommandRunning /\ CloseTab(p, l)
    \/ \E p \in Procs, l \in NavLabels : NoCommandRunning /\ NavigateBegin(p, l, ExtUrl)
    \/ \E p \in Procs : NavigateRetry(p)
    \/ \E p \in Procs : NavigateGo(p)
    \/ \E open \in BOOLEAN : NoCommandRunning /\ toggle_sidebar(open)
    \/ \E height \in SuggestionHeights : NoCommandRunning /\ set_suggestions_height(height)
    \/ \E vertical \in BOOLEAN : NoCommandRunning /\ save_settings(vertical)

SpecAllSeq == Init /\ [][NextAllSeq]_vars

SpecNavigate ==
    /\ Init
    /\ [][NextNavigate]_vars
    /\ \A p \in Procs : WF_vars(NavigateRetry(p)) /\ WF_vars(NavigateGo(p))

\* ------------------------------------------------------------------ claims
OnScreen(l) == webviews[l].st # "none" /\ webviews[l].visible

\* the value the claims expect of the visible tabs, given current_tab
ExpectedVisible == IF current_tab = None THEN {} ELSE {current_tab}

\* C1: after every completed create_tab, switch_tab or close_tab command of a
\* sequential run, the visible tab webviews are exactly {current_tab}, or none
\* when current_tab is none.
C1_VisibleMatchesCurrent ==
    (NoCommandRunning /\ last.op # "none") => VisibleTabs = ExpectedVisible

\* C2: at every instant of a sequential run, also between the steps of one
\* command, at most one tab webview is visible.
C2_AtMostOneVisibleTab == Cardinality(VisibleTabs) <= 1

\* C3: two create_tab calls with different labels, run concurrently: once both
\* have completed, exactly one of the two new tabs is visible and it is the one
\* current_tab names.
BothCreated ==
    /\ NoCommandRunning
    /\ cmds = 2
    /\ tabCreated["a"] = 1
    /\ tabCreated["b"] = 1

C3_ConcurrentCreateOneVisible ==
    BothCreated => (current_tab \in TabLabels /\ VisibleTabs = {current_tab})

\* C4: switch_tab(label) for a label that does not resolve leaves current_tab
\* and the visibility of every webview unchanged.
C4_SwitchUnknownIsNoop ==
    [][\A p \in Procs :
         /\ \A l \in Labels :
              (SwitchTabHide(p, l) /\ ~Resolves(l)) =>
                  \A k \in Labels : webviews'[k].visible = webviews[k].visible
         /\ (SwitchTabSet(p) /\ ~Resolves(arg[p])) => current_tab' = current_tab
      ]_vars

\* C5: close_tab(label) with label = current_tab ends with current_tab none.
C5_CloseActiveClearsPointer ==
    [][\A p \in Procs, l \in Labels :
         (CloseTab(p, l) /\ current_tab = l) => current_tab' = None]_vars

\* C6: close_tab never promotes another tab: it changes neither the visibility
\* of any other tab nor current_tab, and a hidden tab comes on screen only by a
\* step of switch_tab or create_tab.
C6_CloseNeverPromotes ==
    [][/\ \A p \in Procs, l \in Labels :
            CloseTab(p, l) =>
                /\ current_tab' = current_tab
                /\ \A k \in TabLabels \ {l} : OnScreen(k)' = OnScreen(k)
       /\ \A k \in TabLabels :
            (~OnScreen(k) /\ OnScreen(k)') =>
                \E p \in Procs :
                    \/ SwitchTabShow(p)
                    \/ CreateTabShow(p)
                    \/ \E o \in AddChildOutcomes, v \in BOOLEAN : CreateTabAddChild(p, o, v)
      ]_vars

\* C6 witness: the active tab was closed while another, hidden tab remains
C6_Witness ==
    /\ last.op = "close_tab"
    /\ last.label = current_tab
    /\ last.label \in TabLabels
    /\ webviews[last.label].st = "none"
    /\ \E k \in TabLabels : webviews[k].st = "live" /\ ~webviews[k].visible

C8_SecondCreateHidesFirst ==
    (BothCreated /\ last = Done("create_tab", "b", "ok")) =>
        (OnScreen("b") /\ current_tab = "b" /\ ~OnScreen("a"))

\* C9: when the host rejects the creation, create_tab returns an error, emits
\* no tab-created event, registers no webview and leaves current_tab and the
\* tabs as they were (no step of the failing command touches them).
C9_CreationFailureLeavesState ==
    [][\A p \in Procs :
         /\ \A v \in BOOLEAN :
              CreateTabAddChild(p, "err", v) =>
                  /\ last' = Done("create_tab", arg[p], "err_create")
                  /\ pc'[p] = "idle"
                  /\ tabCreated' = tabCreated
                  /\ webviews' = webviews
                  /\ current_tab' = current_tab
         /\ \A l \in Labels, u \in TabUrls :
              CreateTabBegin(p, l, u) =>
                  /\ tabCreated' = tabCreated
                  /\ current_tab' = current_tab
                  /\ \A k \in TabLabels : webviews'[k] = webviews[k]
      ]_vars

\* C9 witness: a create_tab has returned the host's creation error
C9_Witness ==
    /\ last.op = "create_tab"
    /\ last.res = "err_create"
    /\ webviews[last.label].st = "none"

\* C10: a panic inside add_child does not escape create_tab: the command
\* returns an error, the process lives on, the lock is free and nothing else
\* has changed.
C10_PanicIsCaught ==
    [][\A p \in Procs, v \in BOOLEAN :
         CreateTabAddChild(p, "panic", v) =>
             /\ ~crashed'
             /\ last' = Done("create_tab", arg[p], "err_panic")
             /\ pc'[p] = "idle"
             /\ UNCHANGED <<webviews, current_tab, lock, tabCreated, tabClosed, uiVars>>
      ]_vars

\* C10 witness: a create_tab has returned the panic as an error
C10_Witness ==
    /\ last.op = "create_tab"
    /\ last.res = "err_panic"
    /\ ~crashed
    /\ lock = 0

\* C11: no sequence of create_tab, switch_tab and close_tab commands, whatever
\* their label arguments, hides or closes the primary webview "main" or makes
\* current_tab name it.
C11_MainUntouched ==
    /\ webviews[MainLabel].st = "live"
    /\ webviews[MainLabel].visible
    /\ current_tab # MainLabel

\* C18: close_tab(label) closes the webview and emits exactly one tab-closed
\* event when the label resolves; when it does not it emits nothing, changes
\* no state and still returns normally.
C18_CloseTabEffect ==
    [][\A p \in Procs, l \in Labels :
         CloseTab(p, l) =>
             /\ last' = Done("close_tab", l, "ok")
             /\ UNCHANGED <<current_tab, lock, tabCreated, pc>>
             /\ \A k \in Labels \ {l} : webviews'[k] = webviews[k] /\ tabClosed'[k] = tabClosed[k]
             /\ IF Resolves(l)
                THEN webviews'[l].st = "none" /\ tabClosed'[l] = tabClosed[l] + 1
                ELSE webviews'[l] = webviews[l] /\ tabClosed'[l] = tabClosed[l]
      ]_vars

\* C18 witness: a close_tab of a registered tab has closed it and emitted one
\* tab-closed
C18_Witness ==
    /\ last.op = "close_tab"
    /\ last.label \in TabLabels
    /\ webviews[last.label].st = "none"
    /\ tabClosed[last.label] = 1

\* ------------------------------------------------------------------ layout claims
Calculated == calcOut.res # "none"

\* C13: for every window width and height >= 0 and every panel state, the
\* primary rectangle and the tab rectangle have width and height >= 0.
C13_RectsNonNegative ==
    (Calculated /\ calcIn.w >= 0 /\ calcIn.h >= 0) =>
        /\ calcOut.primary.w >= 0 /\ calcOut.primary.h >= 0
        /\ calcOut.tab.w >= 0 /\ calcOut.tab.h >= 0

C15_HorizontalRects ==
    (Calculated /\ ~calcIn.vertical /\ ~calcIn.menu_open /\ calcIn.w >= 0 /\ calcIn.h >= 0) =>
        /\ calcOut.primary = [x |-> 0, y |-> 0, w |-> calcIn.w, h |-> 104 + calcIn.sh]
        /\ calcOut.tab = [x |-> 0, y |-> 104 + calcIn.sh, w |-> calcIn.w,
                          h |-> calcIn.h - (104 + calcIn.sh)]

C15_Witness ==
    /\ calcIn = CalcInput(1200, 800, FALSE, FALSE, 40)
    /\ calcOut.res = "ok"
    /\ calcOut.primary = [x |-> 0, y |-> 0, w |-> 1200, h |-> 144]
    /\ calcOut.tab = [x |-> 0, y |-> 144, w |-> 1200, h |-> 656]

ClosedPanelTabWidth ==
    LayoutRects(calcIn.w, calcIn.h, calcIn.vertical, FALSE, calcIn.sh).tab.w

\* C16: with the panel open, in both tab modes, the tab width is the
\* closed-panel width less 320, clamped at 0, and the main webview's height is
\* the full window height.
C16_OpenPanelRects ==
    (Calculated /\ calcIn.menu_open /\ calcIn.w >= 0 /\ calcIn.h >= 0) =>
        /\ calcOut.tab.w = IF ClosedPanelTabWidth - 320 < 0 THEN 0 ELSE ClosedPanelTabWidth - 320
        /\ calcOut.primary.h = calcIn.h

C16_Witness ==
    /\ calcIn = CalcInput(1200, 800, TRUE, TRUE, 0)
    /\ calcOut.res = "ok"
    /\ calcOut.tab.w = 680
    /\ calcOut.primary.h = 800

Quiescent == NoCommandRunning /\ resized = <<>>

TabRectNow == LayoutRects(winW, winH, vertical_tabs, sidebar_open, suggestions_height).tab

\* C12: whenever no command is in progress, every registered tab webview has
\* the position and size of the tab rectangle computed from the current window
\* size and panel state.
C12_TabsHaveCurrentRect ==
    Quiescent =>
        \A l \in TabLabels :
            webviews[l].st = "live" =>
                /\ webviews[l].x = TabRectNow.x /\ webviews[l].y = TabRectNow.y
                /\ webviews[l].w = TabRectNow.w /\ webviews[l].h = TabRectNow.h

\* ------------------------------------------------------------------ navigation claims
\* where a command is suspended: in add_child, or in navigate's retry delay
SuspensionPoints == {"ct_add", "nav_sleep"}

\* C19: in no reachable state is a task suspended at surface creation, at
\* navigate's retry delay or at the reachability probe while it holds the
\* current_tab lock: the lock is free or held by a command, and that command
\* is not at a suspension point.
C19_NoLockAcrossSuspension ==
    /\ lock \in {0} \cup Procs
    /\ \A p \in Procs : pc[p] \in SuspensionPoints => lock # p

C19_Witness ==
    \E p, q \in Procs :
        /\ lock = q
        /\ pc[q] = "ct_set"
        /\ pc[p] = "nav_sleep"
        /\ tries[p] > 0

IsInternal(u) == StartsWith(u, LuminaScheme) \/ StartsWith(u, LuminaAppScheme)

\* C20: for a navigation or tab creation whose normalized URL uses an internal
\* scheme (lumina:// or lumina-app://), no reachability task is dispatched:
\* in particular none gets as far as sending its request.
C20_NoProbeForInternal ==
    \A t \in BagToSet(probes) : t.st = "waiting" => ~IsInternal(t.url)

C24_ProbeOutcome ==
    [][\A t \in BagToSet(probes), o \in ProbeOutcomes :
         (ProbeFinish(t, o) /\ HandleLive(t.label, t.wid)) =>
             /\ o \in {"connect", "timeout"} =>
                    /\ corrections' = [corrections EXCEPT ![t.label] = @ + 1]
                    /\ location' = [location EXCEPT ![t.label] = ErrorPage(t.url)]
             /\ o = "response" => UNCHANGED <<corrections, location>>
      ]_vars

C24_Witness ==
    \E l \in TabLabels :
        /\ webviews[l].st = "live"
        /\ corrections[l] = 1
        /\ location[l] = ErrorPage(ExtUrl)

\* C25: when the probe of a tab completes with an unreachable outcome after
\* close_tab has closed the tab's webview, no webview is sent a correction
\* and no error is raised.
C25_ClosedTabNoCorrection ==
    [][\A t \in BagToSet(probes), o \in ProbeOutcomes :
         (ProbeFinish(t, o) /\ Unreachable(o) /\ ~HandleLive(t.label, t.wid)) =>
             /\ UNCHANGED <<location, corrections, webviews, last>>
             /\ ~crashed'
      ]_vars

C25_Witness ==
    \E t \in BagToSet(probes) :
        /\ t.st = "waiting"
        /\ t.url = ExtUrl
        /\ tabClosed[t.label] > 0
        /\ ~HandleLive(t.label, t.wid)

\* C22: every navigation a tab reports for a URL that is not internal is
\* allowed at once, and exactly one reachability task is dispatched for that
\* label and URL.
C22_NavigationProbed ==
    [][\A l \in NavLabels, u \in NavUrls :
         (OnNavigation(l, u) /\ ~IsInternal(u)) =>
             /\ navResult' = NavResult(l, u, TRUE)
             /\ probes' = probes (+) SetToBag({Probe(l, webviews[l].id, u, "spawned")})
      ]_vars

\* C23: every navigation a tab reports emits exactly one tab-navigation event
\* carrying the tab's label and the URL.
C23_NavigationAnnounced ==
    [][\A l \in NavLabels, u \in NavUrls :
         OnNavigation(l, u) =>
             tabNavigation' = tabNavigation (+) SetToBag({TabNavigationPayload(l, u)})
      ]_vars

\* C26: navigate always terminates. It looks the label up once and then at
\* most 10 more times; when a lookup resolves it navigates that webview once
\* and returns; when none resolves it returns after the tenth retry without
\* a navigation, a reachability task or an error.
C26_NavigateTerminates ==
    /\ [](\A p \in Procs : tries[p] <= NavRetries)
    /\ [][\A p \in Procs :
            (NavigateRetry(p) /\ pc'[p] = "idle") =>
                /\ tries[p] = NavRetries - 1
                /\ ~Resolves(arg[p])
                /\ last' = Done("navigate", arg[p], "not_found")
                /\ UNCHANGED <<location, probes, webviews, crashed>>
         ]_vars
    /\ [][\A p \in Procs :
            NavigateGo(p) =>
                /\ pc'[p] = "idle"
                /\ HandleLive(arg[p], handle[p]) =>
                       location' = [location EXCEPT ![arg[p]] = Loaded(NormalizeNavigate(url[p]))]
         ]_vars
    /\ \A p \in Procs : (pc[p] \in {"nav_sleep", "nav_go"}) ~> (pc[p] = "idle")

C26_Witness ==
    /\ last = Done("navigate", "a", "not_found")
    /\ \E p \in Procs : pc[p] = "nav_go" /\ tries[p] > 0

\* C27: for every URL that starts with lumina:// or lumina-app://, each of the
\* rewrites yields a URL that starts with lumina-app://localhost/, and
\* rewriting the result again leaves it unchanged.
C27_NormalizedForm ==
    (normOut.done /\ IsInternal(normIn)) =>
        /\ StartsWith(normOut.create_tab, LuminaAppLocalhost)
        /\ StartsWith(normOut.navigate, LuminaAppLocalhost)
        /\ StartsWith(normOut.force_internal_navigate, LuminaAppLocalhost)
        /\ NormalizeCreateTab(normOut.create_tab) = normOut.create_tab
        /\ NormalizeNavigate(normOut.navigate) = normOut.navigate
        /\ NormalizeForce(normOut.force_internal_navigate) = normOut.force_internal_navigate

\* ------------------------------------------------------------------ error claims
\* the results a command reports without an error
IsError(res) == res \notin {"none", "ok", "exists", "not_found"}

\* the step is create_tab failing in webview creation: add_child returned an
\* error or panicked
CreationFailed ==
    \E p \in Procs, vis \in BOOLEAN :
        CreateTabAddChild(p, "err", vis) \/ CreateTabAddChild(p, "panic", vis)

\* the step is create_tab rejecting a url that does not parse
UrlRejected ==
    \E p \in Procs, l \in Labels, u \in TabUrls :
        CreateTabBegin(p, l, u) /\ ~AlreadyExists(l) /\ ~UrlParses(NormalizeCreateTab(u))

C29_TabCreatedOnceAfterShow ==
    /\ [][tabCreated' # tabCreated => \E p \in Procs : CreateTabFinish(p)]_vars
    /\ [][\A p \in Procs :
            CreateTabFinish(p) =>
                /\ tabCreated' = [tabCreated EXCEPT ![arg[p]] = @ + 1]
                /\ last' = Done("create_tab", arg[p], "ok")
         ]_vars
    /\ [][\A p \in Procs :
            (pc[p] # "idle" /\ pc'[p] = "idle" /\ last' # last
             /\ last' = Done("create_tab", arg[p], "ok")) => CreateTabFinish(p)
         ]_vars
    /\ [][\A p \in Procs :
            (pc'[p] = "ct_finish" /\ pc[p] # "ct_finish") =>
                /\ CreateTabShow(p)
                /\ HandleLive(arg[p], handle[p]) => webviews'[arg[p]].visible
         ]_vars
    /\ [][\A p \in Procs :
            (pc'[p] = "ct_show" /\ pc[p] # "ct_show") =>
                /\ CreateTabSetCurrent(p)
                /\ current_tab' = arg[p]
         ]_vars

C29_Witness ==
    \E l \in TabLabels :
        /\ last = Done("create_tab", l, "ok")
        /\ tabCreated[l] = 1
        /\ current_tab = l
        /\ webviews[l].visible

\* C30: switch_tab(label) for a tab label that resolves ends, from every
\* reachable state, with label visible, current_tab = label and every other
\* tab webview hidden. Stated for the calls whose show has taken effect: when
\* such a call stores label in current_tab, no other tab webview is visible.
C30_SwitchMakesSoleVisible ==
    [][\A p \in Procs :
         (SwitchTabSet(p) /\ arg[p] \in TabLabels /\ Resolves(arg[p])
          /\ webviews[arg[p]].visible) =>
             /\ current_tab' = arg[p]
             /\ \A k \in TabLabels \ {arg[p]} :
                    ~(webviews'[k].st # "none" /\ webviews'[k].visible)
      ]_vars

\* C31: a reachability task keeps no webview handle across its network wait:
\* when the probe completes it looks the label up again, so a correction
\* reaches a tab only when a lookup of its label finds the webview at that
\* moment.
C31_CorrectionThroughLookup ==
    [][\A l \in TabLabels :
         corrections'[l] > corrections[l] => Resolves(l)
      ]_vars

\* C32: an error-view correction is applied to a tab only if the probed URL
\* is still the tab's most recently requested destination: a late unreachable
\* result for an earlier destination does not replace the page loaded for a
\* later one.
C32_CorrectionOnlyForCurrentUrl ==
    [][\A t \in BagToSet(probes), outcome \in ProbeOutcomes :
         (ProbeFinish(t, outcome) /\ corrections'[t.label] > corrections[t.label]) =>
             location[t.label] = Loaded(t.url)
      ]_vars

\* C33: the three URL rewrites, in create_tab, navigate and
\* force_internal_navigate, return the same result for every input URL.
C33_NormalizersAgree ==
    normOut.done =>
        /\ normOut.create_tab = normOut.navigate
        /\ normOut.navigate = normOut.force_internal_navigate

\* ------------------------------------------------------------------ layout frame claims
\* the step is a window resize, its handler, toggle_sidebar or
\* set_suggestions_height
LayoutStep ==
    \/ \E open \in BOOLEAN : toggle_sidebar(open)
    \/ \E height \in SuggestionHeights : set_suggestions_height(height)
    \/ \E size \in WinSizes : WindowResize(size)
    \/ ResizedHandler

\* C34: a window resize, toggle_sidebar and set_suggestions_height change only
\* the stored panel state and the positions and sizes of webviews: current_tab,
\* the set of webviews and the visibility of every webview stay as they were.
C34_LayoutKeepsVisibility ==
    [][LayoutStep =>
         /\ current_tab' = current_tab
         /\ \A l \in Labels :
                /\ webviews'[l].visible = webviews[l].visible
                /\ webviews'[l].st = webviews[l].st
                /\ webviews'[l].id = webviews[l].id
      ]_vars

\* a layout step has run while one registered tab was hidden and another one
\* was visible and current
C34_Witness ==
    /\ last.op \in {"toggle_sidebar", "set_suggestions_height", "resized"}
    /\ current_tab \in TabLabels
    /\ \E l, k \in TabLabels :
           /\ webviews[l].st = "live" /\ ~webviews[l].visible
           /\ webviews[k].st = "live" /\ webviews[k].visible /\ current_tab = k

\* C35: layout updates and switch_tab act only on the tab webviews of the
\* main window: a resize, a panel toggle or a switch_tab leaves the webview of
\* every open PWA or flash window where it was, at its size, and visible or
\* hidden as it was.
C35_WindowsUntouched ==
    [][(LayoutStep \/ \E p \in Procs, l \in TabLabels : SwitchTabHide(p, l)) =>
         \A k \in WindowLabels : windows[k].st = "live" => windows'[k] = windows[k]
      ]_vars

\* C36: every run of download_file that emitted download-started ends with
\* the download record's status equal to "completed" or "failed" and has
\* emitted exactly one download-finished event, whose success flag is true
\* exactly when the status is "completed".
C36_DownloadFinishedOnce ==
    [][\A r \in DlRuns :
         (dlRun[r].pc # "done" /\ dlRun'[r].pc = "done" /\ dlEvents'[r].started > 0) =>
             /\ downloads'[dlRun'[r].url] \in {"completed", "failed"}
             /\ Len(dlEvents'[r].finished) = 1
             /\ dlEvents'[r].finished[1] = (downloads'[dlRun'[r].url] = "completed")
      ]_vars

\* C37: for every interleaving of concurrent run_networking_command calls,
\* each call returns the sidecar output line produced for its own request: no
\* caller receives the response to another request, and no caller's response
\* channel is dropped because a later request arrived.
C37_OwnResponse ==
    \A c \in Callers :
        /\ netCall[c].st # "err"
        /\ netCall[c].st = "ok" => netCall[c].line = c

\* C38: after any sequence of add_history calls starting from an empty
\* store, the in-memory history holds at most 100 entries, contains each URL
\* at most once, and has the most recently added URL first.
C38_HistoryBounded ==
    /\ Len(history) <= HistoryLimit
    /\ \A i, j \in 1..Len(history) : history[i] = history[j] => i = j
    /\ histLast # 0 => (history # <<>> /\ history[1] = histLast)

\* on a store at the limit the oldest url was added again and then a new one:
\* the first call moved an entry to the front, the second cut the list
C38_Witness ==
    /\ histAdds = 2
    /\ Len(history) = HistoryLimit
    /\ history[1] = HistoryLimit + 1
    /\ history[2] = 1
    /\ history[HistoryLimit] = 3
    /\ histLast = HistoryLimit + 1

====
